---- MODULE Spec2Model ----
(***************************************************************************)
(* Model of ponte.bridge.Bridge: the chart object (segment_labels,         *)
(* segment_count, total_segments, layers), its construction, add_layer,    *)
(* and the recomputation _plot/_calc_bottom that hands one ax.bar call per *)
(* layer to the rendering collaborator.                                    *)
(*                                                                         *)
(* Python lists/arrays are 0-indexed; the sequences here are 1-indexed, so *)
(* category i of the source is position i+1 of a sequence.                 *)
(*                                                                         *)
(* A float array element is a record [nan, v]: either the NaN sentinel or  *)
(* the number v.  Tops and bottoms are never NaN (they are built from      *)
(* nan_to_num results only) and are plain integers.                        *)
(***************************************************************************)
EXTENDS Integers, Sequences, FiniteSets, TLC

\* ------------------------------------------------------------------ bounds

\* Largest number of segment labels (and longest mask) tried.
MaxN == 3

\* Largest number of layers a chart is grown to.
MaxLayers == 2

\* Largest number of stored values (layers times segments) a chart is grown
\* to; it keeps the charts explored few when MaxN and MaxLayers both grow.
MaxCells == 6

\* ------------------------------------------------------------------ inputs

LabelPool == <<"A", "B", "C", "D", "E", "F">>

\* An element of a values argument: an integer, float('nan') or None.
IntItem(n) == [t |-> "int", v |-> n]
NanItem == [t |-> "nan", v |-> 0]
NoneItem == [t |-> "none", v |-> 0]
ItemPool == {IntItem(1), IntItem(5), NanItem, NoneItem}

\* The bar_args dictionaries passed by callers (opaque to the chart): the
\* default {}.
StylePool == {"{}"}

\* The total_segments argument: None (omitted) or a list of booleans.
NoneArg == [given |-> FALSE, val |-> <<>>]
ListArg(s) == [given |-> TRUE, val |-> s]

SeqsOfLen(S, n) == [1..n -> S]
SeqsUpTo(S, n) == UNION {SeqsOfLen(S, k) : k \in 0..n}

LabelArgs == {SubSeq(LabelPool, 1, n) : n \in 0..MaxN}

\* The values arguments tried on a chart of n segments: every sequence of
\* the right length, one that is one too short and one that is one too long.
ValueArgs(n) ==
    SeqsOfLen(ItemPool, n)
        \cup {[i \in 1..k |-> IntItem(1)] : k \in {n - 1, n + 1} \cap Nat}

MaskArgs == {NoneArg} \cup {ListArg(s) : s \in SeqsUpTo(BOOLEAN, MaxN)}

\* ------------------------------------------------------------------ state

VARIABLES
    obj,             \* "unconstructed", "live", or "raised" (__init__ raised)
    segment_labels,  \* self.segment_labels
    segment_count,   \* self.segment_count
    total_segments,  \* self.total_segments
    layers,          \* self.layers: sequence of [values, bar_args]
    bars,            \* the ax.bar calls made since the last ax.clear()
    last_call        \* the most recent call: its name, arguments and outcome

vars == <<obj, segment_labels, segment_count, total_segments, layers, bars, last_call>>

fields == <<segment_labels, segment_count, total_segments, layers>>

\* ------------------------------------------------------------------ helpers

\* The chart may take one more layer within the bounds explored.
Room == /\ Len(layers) < MaxLayers
        /\ (Len(layers) + 1) * segment_count <= MaxCells

Min(a, b) == IF a < b THEN a ELSE b

\* [x] * n
Repeat(x, n) == [i \in 1..n |-> x]

\* Python truthiness of the total_segments argument: None and [] are falsy.
Truthy(ts) == ts.given /\ Len(ts.val) > 0

\* The float NaN and a float number.
NaN == [nan |-> TRUE, v |-> 0]
Num(n) == [nan |-> FALSE, v |-> n]

\* np.array(values).astype(float): None and nan become NaN, integers floats.
astype_float(values) ==
    [i \in 1..Len(values) |->
        IF values[i].t = "int" THEN Num(values[i].v) ELSE NaN]

\* np.nan_to_num on an array: NaN becomes 0, numbers are kept.
nan_to_num(a) ==
    [i \in 1..Len(a) |-> IF a[i].nan THEN 0 ELSE a[i].v]

\* [x + y for x, y in zip(xs, ys)]
zip_add(xs, ys) ==
    [i \in 1..Min(Len(xs), Len(ys)) |-> xs[i] + ys[i]]

\* Variant: the last element is dropped but no 0 is inserted in front.
shift_right_nopad(a) == SubSeq(a, 1, Len(a) - 1)

\* np.insert(a, 0, 0)[:-1]: shift one to the right, dropping the last.
shift_right(a) ==
    LET ins == <<0>> \o a
    IN  SubSeq(ins, 1, Len(ins) - 1)

\* Variant: a total segment appends its top but leaves cumulative_b alone.
bottom_loop_noreset(ts, step1, tops, i, cumulative_b, bottom_step2) ==
    LET RECURSIVE go(_, _, _)
        go(j, cum, acc) ==
            IF j > Min(Len(ts), Min(Len(step1), Len(tops)))
            THEN acc
            ELSE IF ts[j]
                 THEN go(j + 1, cum, Append(acc, tops[j]))
                 ELSE go(j + 1, cum + step1[j], Append(acc, cum + step1[j]))
    IN  go(i, cumulative_b, bottom_step2)

\* Variant: a total segment takes bottom_step1 (top plus the carry of its
\* left neighbour) instead of the top alone.
bottom_loop_carry(ts, step1, tops, i, cumulative_b, bottom_step2) ==
    LET RECURSIVE go(_, _, _)
        go(j, cum, acc) ==
            IF j > Min(Len(ts), Min(Len(step1), Len(tops)))
            THEN acc
            ELSE IF ts[j]
                 THEN go(j + 1, step1[j], Append(acc, step1[j]))
                 ELSE go(j + 1, cum + step1[j], Append(acc, cum + step1[j]))
    IN  go(i, cumulative_b, bottom_step2)

\* The loop of _calc_bottom over zip(total_segments, bottom_step1,
\* segment_tops), from position i on, with accumulator cumulative_b.
RECURSIVE bottom_loop(_, _, _, _, _, _)
bottom_loop(ts, step1, tops, i, cumulative_b, bottom_step2) ==
    IF i > Min(Len(ts), Min(Len(step1), Len(tops)))
    THEN bottom_step2
    ELSE IF ts[i]
         THEN bottom_loop(ts, step1, tops, i + 1, tops[i],
                          Append(bottom_step2, tops[i]))
         ELSE bottom_loop(ts, step1, tops, i + 1, cumulative_b + step1[i],
                          Append(bottom_step2, cumulative_b + step1[i]))

\* Bridge._calc_bottom(segment_values, segment_tops), with self.total_segments
\* passed as ts.
_calc_bottom(ts, segment_values, segment_tops) ==
    LET shifted == shift_right(nan_to_num(segment_values))
        bottom_step1 == zip_add(segment_tops, shifted)
    IN  bottom_loop(ts, bottom_step1, segment_tops, 1, 0, <<>>)

\* Variant: the heights handed to ax.bar are the NaN-free copy.
BarCall_coerced(n, values, bottom, bar_args) ==
    [x |-> n,
     height |-> [i \in 1..Len(values) |-> Num(nan_to_num(values)[i])],
     bottom |-> bottom, bar_args |-> bar_args]

\* One ax.bar(range(0, segment_count), values, bottom=bottom, **bar_args).
BarCall(n, values, bottom, bar_args) ==
    [x |-> n, height |-> values, bottom |-> bottom, bar_args |-> bar_args]

\* Variant: segment_tops survives from the previous _plot instead of being
\* reset (it starts from the bottoms last handed out for the top layer).
initial_tops_stale(n) ==
    IF bars = <<>> THEN Repeat(0, n) ELSE bars[Len(bars)].bottom

\* segment_tops = [0] * self.segment_count at the start of _plot.
initial_tops(n) == Repeat(0, n)

\* Variant: segment_tops is never advanced past a plotted layer.
plot_loop_stale_tops(ls, ts, n, k, segment_tops, drawn) ==
    LET RECURSIVE go(_, _)
        go(j, acc) ==
            IF j > Len(ls)
            THEN acc
            ELSE go(j + 1,
                    Append(acc, BarCall(n, ls[j].values,
                                        _calc_bottom(ts, ls[j].values, segment_tops),
                                        ls[j].bar_args)))
    IN  go(k, drawn)

\* The loop of _plot over self.layers from layer k on.
RECURSIVE plot_loop(_, _, _, _, _, _)
plot_loop(ls, ts, n, k, segment_tops, drawn) ==
    IF k > Len(ls)
    THEN drawn
    ELSE LET values == ls[k].values
             bottom == _calc_bottom(ts, values, segment_tops)
         IN  plot_loop(ls, ts, n, k + 1,
                       zip_add(segment_tops, nan_to_num(values)),
                       Append(drawn, BarCall(n, values, bottom, ls[k].bar_args)))

\* Bridge._plot: the bar calls on the cleared axes.
_plot(ls, ts, n) == plot_loop(ls, ts, n, 1, initial_tops(n), <<>>)

\* ------------------------------------------------------------------ actions

\* A call record: the operation, whether it returned or raised, and its
\* arguments: n is len(segment_labels) of __init__ or len(values) of
\* add_layer, ts the total_segments argument, gaps the positions of values
\* that hold None or nan.
Call(op, outcome, n, ts, add_to_bottom, gaps) ==
    [op |-> op, outcome |-> outcome, n |-> n, ts |-> ts,
     add_to_bottom |-> add_to_bottom, gaps |-> gaps]

GapsOf(values) == {i \in 1..Len(values) : values[i].t # "int"}

Init ==
    /\ obj = "unconstructed"
    /\ segment_labels = <<>>
    /\ segment_count = 0
    /\ total_segments = <<>>
    /\ layers = <<>>
    /\ bars = <<>>
    /\ last_call = Call("none", "return", 0, NoneArg, FALSE, {})

\* Bridge.__init__(segment_labels, total_segments)
__init__(labels, ts) ==
    /\ obj = "unconstructed"
    /\ IF Truthy(ts) /\ Len(labels) # Len(ts.val)
       THEN /\ obj' = "raised"
            /\ last_call' = Call("__init__", "raise", Len(labels), ts, FALSE, {})
            /\ UNCHANGED <<fields, bars>>
       ELSE /\ obj' = "live"
            /\ layers' = <<>>
            /\ segment_labels' = labels
            /\ segment_count' = Len(labels)
            /\ total_segments' =
                  IF Truthy(ts) THEN ts.val ELSE Repeat(FALSE, Len(labels))
            /\ bars' = <<>>
            /\ last_call' = Call("__init__", "return", Len(labels), ts, FALSE, {})

\* Variant: the length of values is checked after the layer is stored.
add_layer_late_check(values, add_to_bottom, bar_args) ==
    /\ obj = "live"
    /\ Room
    /\ LET layer == [values |-> astype_float(values), bar_args |-> bar_args]
       IN  layers' = IF add_to_bottom
                     THEN <<layer>> \o layers
                     ELSE Append(layers, layer)
    /\ IF segment_count # Len(values)
       THEN /\ last_call' = Call("add_layer", "raise", Len(values), NoneArg,
                                 add_to_bottom, GapsOf(values))
            /\ UNCHANGED bars
       ELSE /\ bars' = _plot(layers', total_segments, segment_count)
            /\ last_call' = Call("add_layer", "return", Len(values), NoneArg,
                                 add_to_bottom, GapsOf(values))
    /\ UNCHANGED <<obj, segment_labels, segment_count, total_segments>>

\* Variant: add_to_bottom is ignored and the layer always appended.
add_layer_append_only(values, add_to_bottom, bar_args) ==
    /\ obj = "live"
    /\ IF segment_count # Len(values)
       THEN /\ last_call' = Call("add_layer", "raise", Len(values), NoneArg,
                                 add_to_bottom, GapsOf(values))
            /\ UNCHANGED <<obj, fields, bars>>
       ELSE /\ Room
            /\ layers' = Append(layers, [values |-> astype_float(values),
                                         bar_args |-> bar_args])
            /\ bars' = _plot(layers', total_segments, segment_count)
            /\ last_call' = Call("add_layer", "return", Len(values), NoneArg,
                                 add_to_bottom, GapsOf(values))
            /\ UNCHANGED <<obj, segment_labels, segment_count, total_segments>>

\* Bridge.add_layer(values, add_to_bottom, bar_args)
add_layer(values, add_to_bottom, bar_args) ==
    /\ obj = "live"
    /\ IF segment_count # Len(values)
       THEN /\ last_call' = Call("add_layer", "raise", Len(values), NoneArg,
                                 add_to_bottom, GapsOf(values))
            /\ UNCHANGED <<obj, fields, bars>>
       ELSE /\ Room
            /\ LET layer == [values |-> astype_float(values),
                             bar_args |-> bar_args]
               IN  layers' = IF add_to_bottom
                             THEN <<layer>> \o layers
                             ELSE Append(layers, layer)
            /\ bars' = _plot(layers', total_segments, segment_count)
            /\ last_call' = Call("add_layer", "return", Len(values), NoneArg,
                                 add_to_bottom, GapsOf(values))
            /\ UNCHANGED <<obj, segment_labels, segment_count, total_segments>>

\* Bridge._plot() run again on the current layer list.
Plot ==
    /\ obj = "live"
    /\ bars' = _plot(layers, total_segments, segment_count)
    /\ last_call' = Call("_plot", "return", 0, NoneArg, FALSE, {})
    /\ UNCHANGED <<obj, fields>>

Next ==
    \/ \E labels \in LabelArgs, ts \in MaskArgs : __init__(labels, ts)
    \/ \E values \in ValueArgs(segment_count), b \in BOOLEAN,
          s \in StylePool : add_layer(values, b, s)
    \/ Plot

Spec == Init /\ [][Next]_vars

\* ------------------------------------------------- the documented layout rule

\* The documented rule is stated over 1-based positions: position i here is
\* category i - 1 of the documentation.

Max(S) == CHOOSE x \in S : \A y \in S : y <= x

\* A value with a missing/NaN entry read as 0.
Clean(x) == IF x.nan THEN 0 ELSE x.v

\* tops[i] for layer k: the clean values at i of the layers strictly below k.
RECURSIVE SpecTops(_, _, _)
SpecTops(ls, k, i) ==
    IF k <= 1 THEN 0 ELSE SpecTops(ls, k - 1, i) + Clean(ls[k - 1].values[i])

\* shifted[i] for layer k.
SpecShifted(ls, k, i) == IF i = 1 THEN 0 ELSE Clean(ls[k].values[i - 1])

\* candidate[i] for layer k.
SpecCandidate(ls, k, i) == SpecTops(ls, k, i) + SpecShifted(ls, k, i)

\* The accumulator cum after category i of layer k has been scanned.
RECURSIVE SpecCum(_, _, _, _)
SpecCum(mask, ls, k, i) ==
    IF i = 0 THEN 0
    ELSE IF mask[i] THEN SpecTops(ls, k, i)
    ELSE SpecCum(mask, ls, k, i - 1) + SpecCandidate(ls, k, i)

\* bottom for layer k: bottom[i] is cum right after category i.
SpecBottom(mask, ls, k) == [i \in 1..Len(mask) |-> SpecCum(mask, ls, k, i)]

\* The bottoms last handed to rendering, one vector per layer.
Bottoms(bs) == [k \in 1..Len(bs) |-> bs[k].bottom]

\* The raw value vectors of a layer list.
ValuesOf(ls) == [k \in 1..Len(ls) |-> ls[k].values]

Live == obj = "live"

\* ------------------------------------------------------------------ C1

ExampleLabels == <<"A", "B", "C">>
ExampleMask == <<FALSE, FALSE, TRUE>>
ExampleValues == << <<Num(5), Num(5), Num(5)>>, <<Num(1), Num(1), Num(1)>> >>

\* C1: for every mask, layer list and layer k, the bottom vector handed to
\* rendering for layer k is the one the documented rule gives (tops, shifted,
\* candidate, and the accumulator cum that a total category re-seeds); for
\* labels A,B,C with mask [false,false,true] and layers [5,5,5] below [1,1,1]
\* the bottoms are [0,5,0] and [5,11,5].
C1_BottomFollowsRule ==
    Live =>
        /\ Len(bars) = Len(layers)
        /\ \A k \in 1..Len(layers) :
              bars[k].bottom = SpecBottom(total_segments, layers, k)
        /\ (/\ segment_labels = ExampleLabels
            /\ total_segments = ExampleMask
            /\ ValuesOf(layers) = ExampleValues)
           => Bottoms(bars) = << <<0, 5, 0>>, <<5, 11, 5>> >>

\* The documented example: [5,5,5] added first, [1,1,1] added on top.
C1_Witness ==
    /\ Live
    /\ segment_labels = ExampleLabels
    /\ total_segments = ExampleMask
    /\ ValuesOf(layers) = ExampleValues
    /\ last_call.op = "add_layer"
    /\ last_call.outcome = "return"
    /\ ~last_call.add_to_bottom
    /\ Bottoms(bars) = << <<0, 5, 0>>, <<5, 11, 5>> >>

\* ------------------------------------------------------------------ C2

\* The float values an entry is varied over: those add_layer can store and
\* one more number.
FloatPool == {astype_float(<<x>>)[1] : x \in ItemPool} \cup {Num(7)}

\* The layer list with entry j of layer l replaced by x.
WithEntry(ls, l, j, x) == [ls EXCEPT ![l].values[j] = x]

\* C2: at every total category i, every layer's bottom[i] is the sum of the
\* clean values at i of the layers strictly below it, and it does not change
\* when a value at a position j < i of that layer or a lower layer changes.
C2_TotalReset ==
    Live =>
        /\ \A k \in 1..Len(layers) : \A i \in 1..segment_count :
              total_segments[i] => bars[k].bottom[i] = SpecTops(layers, k, i)
        /\ \A l \in 1..Len(layers) : \A j \in 1..segment_count :
              \A x \in FloatPool :
                LET changed == _plot(WithEntry(layers, l, j, x), total_segments,
                                    segment_count)
                IN  \A k \in l..Len(layers) : \A i \in (j + 1)..segment_count :
                        total_segments[i] =>
                            changed[k].bottom[i] = bars[k].bottom[i]

\* Two consecutive total categories after an increment, under a second layer
\* whose total bottoms are not 0.
C2_Witness ==
    /\ Live
    /\ total_segments = <<FALSE, TRUE, TRUE>>
    /\ Len(layers) = 2
    /\ layers[1].values = <<Num(5), Num(1), Num(5)>>
    /\ bars[2].bottom[2] = 1
    /\ bars[2].bottom[3] = 5

\* ------------------------------------------------------------------ C9

\* C9: on a constructed chart of N labels the mask has length N (all false
\* when it was omitted), every stored layer has N values and every bottom
\* vector has length N, also for N = 0, all totals and all increments.
C9_Shape ==
    Live =>
        /\ segment_count = Len(segment_labels)
        /\ Len(total_segments) = segment_count
        /\ (last_call.op = "__init__" /\ ~last_call.ts.given)
              => total_segments = [i \in 1..segment_count |-> FALSE]
        /\ \A k \in 1..Len(layers) : Len(layers[k].values) = segment_count
        /\ Len(bars) = Len(layers)
        /\ \A k \in 1..Len(bars) :
              /\ Len(bars[k].bottom) = segment_count
              /\ DOMAIN bars[k].bottom = 1..segment_count

\* N = 0: an empty values sequence was added and its bottom vector is empty.
C9_Witness ==
    /\ Live
    /\ segment_count = 0
    /\ Len(layers) = MaxLayers
    /\ last_call.op = "add_layer"
    /\ last_call.outcome = "return"
    /\ \A k \in 1..Len(bars) : bars[k].bottom = <<>>

\* ------------------------------------------------------------------ C10

\* The sum of the clean values at i over all layers.
RECURSIVE ColumnSum(_, _, _)
ColumnSum(ls, k, i) ==
    IF k = 0 THEN 0 ELSE ColumnSum(ls, k - 1, i) + Clean(ls[k].values[i])

\* C10: at every total category and at the first category the segments
\* stack from 0 without gap or overlap: the bottom layer starts at 0, each
\* layer starts where the layer below it ends, and the top layer ends at the
\* sum of the clean values of all layers.
C10_Contiguous ==
    Live =>
        \A i \in 1..segment_count :
            (total_segments[i] \/ i = 1) =>
                /\ Len(layers) >= 1 => bars[1].bottom[i] = 0
                /\ \A k \in 1..(Len(layers) - 1) :
                      bars[k + 1].bottom[i] =
                          bars[k].bottom[i] + Clean(layers[k].values[i])
                /\ Len(layers) >= 1 =>
                      bars[Len(layers)].bottom[i]
                          + Clean(layers[Len(layers)].values[i])
                        = ColumnSum(layers, Len(layers), i)

\* Two layers with a gap in the lower one, on a chart whose last category
\* is a total; the lower layer was added second.
C10_Witness ==
    /\ Live
    /\ total_segments = <<FALSE, FALSE, TRUE>>
    /\ Len(layers) = 2
    /\ layers[1].values = <<Num(1), NaN, Num(5)>>
    /\ layers[2].values = <<Num(5), Num(5), Num(1)>>
    /\ last_call.op = "add_layer"
    /\ last_call.add_to_bottom
    /\ bars[2].bottom[3] = 5
    /\ bars[2].bottom[1] = 1

\* ------------------------------------------------------------------ C3

\* C3: a construction whose total mask is provided with a length other than
\* the number of labels (a provided empty mask included) raises and leaves
\* no chart.
C3_MaskMismatchRaises ==
    (/\ last_call.op = "__init__"
     /\ last_call.ts.given
     /\ Len(last_call.ts.val) # last_call.n)
        => (last_call.outcome = "raise" /\ obj # "live")

\* ------------------------------------------------------------------ C4

\* C4: add_layer with values of a length other than segment_count raises and
\* leaves the layer list, the labels, the mask and the rendered bars as they
\* were.
C4_BadLengthNoChange ==
    [][(last_call'.op = "add_layer" /\ last_call'.n # segment_count)
          => /\ last_call'.outcome = "raise"
             /\ UNCHANGED <<obj, segment_labels, segment_count,
                            total_segments, layers, bars>>]_vars

\* A rejected call on a chart that already holds layers.
C4_Witness ==
    /\ Live
    /\ last_call.op = "add_layer"
    /\ last_call.outcome = "raise"
    /\ last_call.n # segment_count
    /\ Len(layers) = MaxLayers
    /\ Len(bars) = Len(layers)

\* ------------------------------------------------------------------ C5

\* A successful add_layer step.
AddReturned ==
    /\ last_call'.op = "add_layer"
    /\ last_call'.outcome = "return"
    /\ layers' # layers

\* C5: the layer list is empty after construction; a successful add_layer
\* with add_to_bottom puts the new layer at position 0, without it at the
\* end, keeping the order of the layers already there; every recomputation
\* renders exactly one bar call per layer, in list order.
C5_StackingOrder ==
    /\ [](Live =>
            /\ last_call.op = "__init__" => layers = <<>>
            /\ Len(bars) = Len(layers)
            /\ \A k \in 1..Len(layers) :
                  /\ bars[k].height = layers[k].values
                  /\ bars[k].bar_args = layers[k].bar_args
                  /\ bars[k].x = segment_count)
    /\ [][AddReturned =>
            /\ Len(layers') = Len(layers) + 1
            /\ IF last_call'.add_to_bottom
               THEN Tail(layers') = layers
               ELSE SubSeq(layers', 1, Len(layers)) = layers]_vars

\* A layer was put below an existing layer that differs from it.
C5_Witness ==
    /\ Live
    /\ Len(layers) = 2
    /\ last_call.op = "add_layer"
    /\ last_call.outcome = "return"
    /\ last_call.add_to_bottom
    /\ layers[1].values = <<Num(1), Num(5)>>
    /\ layers[2].values = <<Num(5), NaN>>
    /\ bars[1].height = <<Num(1), Num(5)>>

\* ------------------------------------------------------------------ C6

\* The sum of s[a..b].
RECURSIVE SumRange(_, _, _)
SumRange(s, a, b) == IF a > b THEN 0 ELSE s[a] + SumRange(s, a + 1, b)

\* r(i): the greatest total position <= i, or the first position if none.
ResetIndex(mask, i) ==
    LET totals == {j \in 1..i : mask[j]}
    IN  IF totals = {} THEN 1 ELSE Max(totals)

\* C6: when add_layer(b, add_to_bottom=true) succeeds on a chart that holds
\* layers, every earlier layer keeps its raw values and style, and its
\* bottom[i] grows by the sum of the clean b[j] for j from r(i) through i.
C6_BottomInsertShift ==
    [][(AddReturned /\ last_call'.add_to_bottom /\ Len(layers) >= 1) =>
          LET b == [i \in 1..segment_count |-> Clean(layers'[1].values[i])]
          IN  \A k \in 1..Len(layers) :
                /\ layers'[k + 1] = layers[k]
                /\ bars'[k + 1].height = bars[k].height
                /\ bars'[k + 1].bar_args = bars[k].bar_args
                /\ \A i \in 1..segment_count :
                      bars'[k + 1].bottom[i] =
                          bars[k].bottom[i]
                            + SumRange(b, ResetIndex(total_segments, i), i)]_vars

\* [1,5,1] was put below [5,5,5] on a chart whose middle category is a
\* total: the old layer's bottoms moved from [0,0,5] to [1,5,11].
C6_Witness ==
    /\ Live
    /\ total_segments = <<FALSE, TRUE, FALSE>>
    /\ last_call.op = "add_layer"
    /\ last_call.outcome = "return"
    /\ last_call.add_to_bottom
    /\ ValuesOf(layers) = << <<Num(1), Num(5), Num(1)>>,
                             <<Num(5), Num(5), Num(5)>> >>
    /\ bars[2].bottom = <<1, 5, 11>>

\* ------------------------------------------------------------------ C7

\* The position the layer just added has in the list.
NewIndex == IF last_call.add_to_bottom THEN 1 ELSE Len(layers)

\* C7: a missing/NaN entry at position k of a layer gives every layer the
\* bottoms it would have with 0 in its place, while the value stored and the
\* value handed to rendering at k stay the NaN sentinel through later calls.
C7_GapTolerance ==
    /\ [](Live =>
            /\ \A l \in 1..Len(layers) : \A k \in 1..segment_count :
                  layers[l].values[k].nan =>
                      /\ Bottoms(_plot(WithEntry(layers, l, k, Num(0)),
                                       total_segments, segment_count))
                            = Bottoms(bars)
                      /\ layers[l].values[k] = NaN
                      /\ bars[l].height[k] = NaN
            /\ (last_call.op = "add_layer" /\ last_call.outcome = "return")
                  => \A k \in 1..segment_count :
                        layers[NewIndex].values[k].nan <=> k \in last_call.gaps)
    /\ [][Live =>
            \A l \in 1..Len(layers) : \A k \in 1..segment_count :
                layers[l].values[k].nan =>
                    \E m \in {l, l + 1} \cap (1..Len(layers')) :
                        /\ layers'[m] = layers[l]
                        /\ bars'[m].height[k] = NaN]_vars

\* A layer with a gap in its middle lies under a later layer, and the upper
\* layer's bottoms are those for 0 in the gap.
C7_Witness ==
    /\ Live
    /\ total_segments = <<FALSE, FALSE, FALSE>>
    /\ Len(layers) = 2
    /\ layers[1].values = <<Num(5), NaN, Num(1)>>
    /\ layers[2].values = <<Num(1), Num(1), Num(1)>>
    /\ last_call.op = "add_layer"
    /\ ~last_call.add_to_bottom
    /\ bars[1].height[2] = NaN
    /\ bars[1].bottom = <<0, 5, 5>>
    /\ bars[2].bottom = <<5, 6, 8>>

\* ------------------------------------------------------------------ C8

\* C8: the bars are a function of the current layer list and the mask only:
\* in every state each layer's bar call is the one the documented rule gives
\* for the list as it stands, however the list was built, and running _plot
\* again changes neither the bars nor the layer list, the values or the mask.
C8_RecomputeIdempotent ==
    /\ [](Live =>
            bars = [k \in 1..Len(layers) |->
                      [x |-> segment_count,
                       height |-> layers[k].values,
                       bottom |-> SpecBottom(total_segments, layers, k),
                       bar_args |-> layers[k].bar_args]])
    /\ [][last_call'.op = "_plot" =>
            /\ bars' = bars
            /\ UNCHANGED <<obj, segment_labels, segment_count,
                           total_segments, layers>>]_vars

\* _plot was run again on two layers whose bottoms are not all 0.
C8_Witness ==
    /\ Live
    /\ last_call.op = "_plot"
    /\ total_segments = <<FALSE, TRUE>>
    /\ ValuesOf(layers) = << <<Num(5), Num(1)>>, <<Num(1), NaN>> >>
    /\ Bottoms(bars) = << <<0, 0>>, <<5, 1>> >>

====
